---- MODULE Spec2Model ----
(***************************************************************************)
(* Gesture-to-music mapping engine and recording/playback scheduler of the *)
(* hand-gesture virtual instrument (src/src/app.js).                       *)
(*                                                                         *)
(* Conventions of the model                                                *)
(*  - time is performance.now() in milliseconds; one handler runs at one   *)
(*    clock value (the handlers are synchronous and short);                *)
(*  - landmark coordinates are given in thousandths (x, y of the index     *)
(*    finger tip, z the mean depth of the 21 landmarks);                   *)
(*  - frequencies are in units of 1/1600 Hz, so that every note of NOTES   *)
(*    shifted by -2..+2 octaves (and by two shifts in a row) is an integer;*)
(*  - JavaScript's null is -1 for currentNote (an index into NOTES);       *)
(*  - buffer indices are 0-based as in the source, sequences are 1-based.  *)
(***************************************************************************)
EXTENDS Integers, Sequences, FiniteSets, TLC

(* ------------------------------ bounds --------------------------------- *)
\* the clock stops advancing at MaxTime (it starts at 100): the last note of
\* the recording of InitRecorded, played from 350 on, and the tail delay
MaxTime == 1600
\* the clock of the playback of InitRecorded, which starts at 350, stops
\* advancing at PlaybackTime where the end of a run is not needed
PlaybackTime == 600
\* the clock of a recording made during playback stops advancing at TapeTime
TapeTime == 500
\* the clock of the selector and the recorder stops advancing at SelectorTime
SelectorTime == 340
\* a frame that would append to a buffer of MaxNotes events is not delivered
MaxNotes == 3
\* playSequence is not started when MaxChains timer chains are pending
MaxChains == 2
\* the playback buttons are not clicked after LastStart where every run is
\* followed to its end
LastStart == 450

(* ------------------------- program constants --------------------------- *)
NOTE_CHANGE_THRESHOLD == 20
MIN_NOTE_CHANGE_INTERVAL == 100
\* setTimeout(playNext, Math.min(delayUntilNext, 50))
PollInterval == 50
\* setTimeout(playNext, 500) after the last note
TailDelay == 500
\* canvas.height = video.videoHeight, height: { ideal: 720 }
CanvasHeight == 720
\* canvas.width = video.videoWidth, width: { ideal: 1280 }
CanvasWidth == 1280
\* <canvas id="canvas">: the width of a canvas element without width attribute
DefaultCanvasWidth == 300
\* baseVolume: 70
DefaultBaseVolume == 70
\* the number NaN, (centerX - x) / centerX with centerX = 0 and x = 0: a value
\* that is no multiplier and no volume
NaN == -999999
\* utils.js: the defaults of zToOctaveShift, thousandths
DefaultMinZ == -100
DefaultMaxZ == 50
\* utils.js: the defaults of calculateDynamicVolumeMultiplier, thousandths
DefaultLeftMultiplier == 500
DefaultRightMultiplier == 1500

\* frequency of a note given in hundredths of a Hz, in units of 1/1600 Hz
Hz100(c) == c * 16

NOTES ==
  << [name |-> "B", frequency |-> Hz100(49388)],
     [name |-> "A", frequency |-> Hz100(44000)],
     [name |-> "G", frequency |-> Hz100(39200)],
     [name |-> "F", frequency |-> Hz100(34923)],
     [name |-> "E", frequency |-> Hz100(32963)],
     [name |-> "D", frequency |-> Hz100(29366)],
     [name |-> "C", frequency |-> Hz100(26163)] >>

NoteIndices == 0 .. (Len(NOTES) - 1)

(* ------------------------------ inputs --------------------------------- *)
\* landmark y of the finger tip, thousandths of the canvas height:
\* -18, 90, 108, 126, 360 and 738 px on a canvas 720 px high
LandmarkYs == {-25, 125, 150, 175, 500, 1025}
\* landmark x of the finger tip, thousandths of the canvas width
LandmarkXs == {500}
\* mean z of the landmarks, thousandths
LandmarkZs == {50}
\* positions of the volume slider
SliderValues == {70}
\* landmark x of the finger tip in the frames of the volume mapping: the left
\* edge, a quarter, the centre and the right edge of the camera image
MapperXs == {0, 250, 500, 1000}
\* mean z in these frames: maxZ and the depth half way between minZ and maxZ
MapperZs == {-25, 50}
\* positions of the volume slider while these frames arrive
MapperSliderValues == {70, 100}
\* video.videoWidth of the camera
VideoWidths == {0, CanvasWidth}
\* mean z in the frames of a recording: minZ and maxZ
EventZs == {-100, 50}
\* amounts by which the clock advances between two handlers
TickSteps == {50, 100}
\* steps of the clock that let a timer fire late and the tail delay elapse
TailSteps == {250, 500}
\* time between two processed frames (25 frames per second, and a pause)
FrameSteps == {40, 100}

\* average depths given to the octave mappers, thousandths
Depths == { z \in -130 .. 80 : z % 5 = 0 }
\* the (minZ, maxZ) given to zToOctaveShift: its defaults and another range
ZRanges ==
  { [minZ |-> DefaultMinZ, maxZ |-> DefaultMaxZ], [minZ |-> 0, maxZ |-> 100] }
\* canvas widths given to calculateDynamicVolumeMultiplier, px
Widths == {0, 8, 800, CanvasWidth}
\* pointer x given to it, in eighths of the width (in px when the width is 0)
Eighths == -8 .. 16
\* base frequencies and octave shifts given to getFrequencyWithOctave
BaseFrequencies == { NOTES[i].frequency : i \in 1 .. Len(NOTES) }
Shifts == -2 .. 2

NoHand == [hand |-> FALSE, x |-> 0, y |-> 0, z |-> 0]

Frames ==
  {NoHand} \cup
  { [hand |-> TRUE, x |-> lx, y |-> ly, z |-> lz] :
      lx \in LandmarkXs, ly \in LandmarkYs, lz \in LandmarkZs }

(* --------------------------- pure functions ---------------------------- *)
Min(a, b) == IF a <= b THEN a ELSE b
Max(a, b) == IF a >= b THEN a ELSE b
Abs(a) == IF a >= 0 THEN a ELSE -a

\* Math.max(lo, Math.min(hi, v))
Clamp(v, lo, hi) == Max(lo, Min(hi, v))

\* extractPointerFinger: landmark.x * canvas.width, landmark.y * canvas.height
ExtractPointerFinger(f, width) ==
  [x |-> (f.x * width) \div 1000, y |-> (f.y * CanvasHeight) \div 1000]

\* a selector that rounds y / zoneHeight up instead of down
RawNoteIndexCeil(y) ==
  Clamp((y * Len(NOTES) + CanvasHeight - 1) \div CanvasHeight, 0, Len(NOTES) - 1)

\* Math.floor(y / zoneHeight) with zoneHeight = canvas.height / NOTES.length,
\* clamped to 0 .. NOTES.length - 1
RawNoteIndex(y) ==
  Clamp((y * Len(NOTES)) \div CanvasHeight, 0, Len(NOTES) - 1)

\* a selector without hysteresis
HysteresisOff(noteIndex, y, curIndex, lastY) == noteIndex

\* the hysteresis of mapPositionToNote: the index the frame proposes
HysteresisIndex(noteIndex, y, curIndex, lastY) ==
  IF curIndex # -1 /\ Abs(y - lastY) < NOTE_CHANGE_THRESHOLD /\ noteIndex # curIndex
  THEN curIndex
  ELSE noteIndex

\* a selector without throttle
RateAllowsAlways(t, lastChange) == t - lastChange >= 0

\* the throttle of mapPositionToNote
RateAllows(t, lastChange) == t - lastChange >= MIN_NOTE_CHANGE_INTERVAL

\* an octave mapper that raises the octave as z falls
OctaveOfReversed(z) ==
  LET minZ == -100
      maxZ == 50
      zc   == Clamp(z, minZ, maxZ)
      num  == 4 * (maxZ - zc) - 2 * (maxZ - minZ)
      den  == maxZ - minZ
  IN  Clamp((2 * num + den) \div (2 * den), -2, 2)

\* updateOctaveShift: Math.round(clamp((avgZ - minZ) / (maxZ - minZ), 0, 1) * 4 - 2)
\* with minZ = -0.1, maxZ = 0.05, z in thousandths; Math.round(v) = floor(v + 1/2)
OctaveOf(z) ==
  LET minZ == -100
      maxZ == 50
      zc   == Clamp(z, minZ, maxZ)
      \* normalized * 4 - 2 = (4 * (zc - minZ) - 2 * (maxZ - minZ)) / (maxZ - minZ)
      num  == 4 * (zc - minZ) - 2 * (maxZ - minZ)
      den  == maxZ - minZ
  IN  Clamp((2 * num + den) \div (2 * den), -2, 2)

\* an octave mapper over one octave down to one octave up
ZToOctaveShiftNarrow(avgZ, minZ, maxZ) ==
  LET zc  == Clamp(avgZ, minZ, maxZ)
      num == 2 * (zc - minZ) - (maxZ - minZ)
      den == maxZ - minZ
  IN  Clamp((2 * num + den) \div (2 * den), -2, 2)

\* utils.js zToOctaveShift(avgZ, minZ, maxZ), minZ < maxZ, all in thousandths:
\* clamp(Math.round(clamp((avgZ - minZ) / (maxZ - minZ), 0, 1) * 4 - 2), -2, 2)
ZToOctaveShift(avgZ, minZ, maxZ) ==
  LET zc  == Clamp(avgZ, minZ, maxZ)
      num == 4 * (zc - minZ) - 2 * (maxZ - minZ)
      den == maxZ - minZ
  IN  Clamp((2 * num + den) \div (2 * den), -2, 2)

\* 2^k for k >= 0
RECURSIVE Pow2(_)
Pow2(k) == IF k <= 0 THEN 1 ELSE 2 * Pow2(k - 1)

\* an octave taken as a step of the base frequency
GetFrequencyWithOctaveLinear(baseFrequency, octaveShift) ==
  IF octaveShift >= 0
  THEN baseFrequency * (1 + octaveShift)
  ELSE baseFrequency \div (1 - octaveShift)

\* baseFrequency * Math.pow(2, octaveShift)
GetFrequencyWithOctave(baseFrequency, octaveShift) ==
  IF octaveShift >= 0
  THEN baseFrequency * Pow2(octaveShift)
  ELSE baseFrequency \div Pow2(-octaveShift)

\* utils.js getFrequencyWithOctave(baseFrequency, octaveShift)
UtilsGetFrequencyWithOctave(baseFrequency, octaveShift) ==
  IF octaveShift >= 0
  THEN baseFrequency * Pow2(octaveShift)
  ELSE baseFrequency \div Pow2(-octaveShift)

\* a volume mapper that is loud on the left and soft on the right
CalculateDynamicVolumeMultiplierMirrored(pointerX, canvasWidth) ==
  IF canvasWidth = 0 THEN 1000
  ELSE Clamp(1000 + (Clamp(canvasWidth - 2 * pointerX, -canvasWidth, canvasWidth)
                       * 500) \div canvasWidth,
             500, 1500)

\* utils.js calculateDynamicVolumeMultiplier(pointerX, canvasWidth) with the
\* default options, canvasWidth >= 0, result in thousandths (rounded down):
\* ratio = (pointerX - center) / center = (2 pointerX - canvasWidth) / canvasWidth,
\* 0 when center is 0, clamped to -1 .. 1
CalculateDynamicVolumeMultiplier(pointerX, canvasWidth) ==
  LET left == DefaultLeftMultiplier
      right == DefaultRightMultiplier
      ratioNum == IF canvasWidth = 0 THEN 0
                  ELSE Clamp(2 * pointerX - canvasWidth, -canvasWidth, canvasWidth)
      ratioDen == IF canvasWidth = 0 THEN 1 ELSE canvasWidth
      multiplier == IF ratioNum >= 0
                    THEN 1000 + (ratioNum * (right - 1000)) \div ratioDen
                    ELSE 1000 + (ratioNum * (1000 - left)) \div ratioDen
  IN  Clamp(multiplier, Min(left, right), Max(left, right))

\* calculateDynamicVolume: 1.0 + ((centerX - x) / centerX) * 0.5 with
\* centerX = width / 2, clamped to 0.5 .. 1.5, in thousandths (width > 0)
\* Math.max(0.5, Math.min(1.5, NaN)) is NaN
DynamicVolumeOf(x, width) ==
  IF width = 0 THEN NaN
  ELSE Clamp(1000 + ((width - 2 * x) * 500) \div width, 500, 1500)

\* updateVolume: clamp(baseVolume * multiplier, 0, 100) and
\* synth.volume.value = ((clamped - 100) / 100) * 40, in units of 1/2500 dB
SynthVolumeOf(base, mult) ==
  IF mult = NaN THEN NaN
  ELSE Clamp(base * mult, 0, 100 * 1000) - 100 * 1000

\* app.synth.volume.value = volume: whether the assignment throws. Tone.js
\* is not part of the sources: a volume that is not finite is either stored
\* as it is or refused with an Error, which ends the handler
VolumeThrows(hasSynth, volume) ==
  IF hasSynth /\ volume = NaN THEN BOOLEAN ELSE {FALSE}

\* the elements of a set of numbers in ascending order:
\* Array.from(set).sort((a, b) => a - b)
RECURSIVE SortedSeq(_)
SortedSeq(S) ==
  IF S = {} THEN << >>
  ELSE LET m == CHOOSE a \in S : \A b \in S : a <= b
       IN  << m >> \o SortedSeq(S \ {m})

\* indices counted from one
IndexSeqFromOne(n) == [i \in 1 .. n |-> i]

\* Array.from({length: n}, (_, i) => i)
IndexSeq(n) == [i \in 1 .. n |-> i - 1]

(* ------------------------------- state --------------------------------- *)
VARIABLES
  now,                      \* performance.now()
  startPc,                  \* position of the asynchronous startSystem
  isRunning,
  canvasWidth,              \* app.canvas.width
  audioInitialized,
  synth,                    \* app.synth is not null
  isPlaying,
  synthFrequency,           \* app.synth.frequency.value
  synthVolume,              \* app.synth.volume.value
  baseVolume,
  dynamicVolumeMultiplier,
  handDetected,
  currentNote,              \* index into NOTES of app.currentNote, -1 = null
  currentNoteIndex,
  lastNoteChangeY,
  lastNoteChangeTime,
  currentOctaveShift,
  isRecording,
  recordedNotes,
  recordingStartTime,
  isPlayingRecording,
  selectedNoteIndices,
  chains,                   \* the playNext closures with a pending setTimeout,
                            \* in the order in which their runs were started
  soundSource,              \* history: who sounded the note that is playing
  ev                        \* history: the handler that ran last and what it did

vars ==
  << now, startPc, isRunning, canvasWidth, audioInitialized, synth, isPlaying,
     synthFrequency,
     synthVolume, baseVolume, dynamicVolumeMultiplier, handDetected, currentNote,
     currentNoteIndex, lastNoteChangeY, lastNoteChangeTime, currentOctaveShift,
     isRecording, recordedNotes, recordingStartTime, isPlayingRecording,
     selectedNoteIndices, chains, soundSource, ev >>

sinkVars == << isPlaying, synthFrequency, soundSource >>
audioVars == << audioInitialized, synth, sinkVars, synthVolume >>
volumeVars == << baseVolume, dynamicVolumeMultiplier >>
selectorVars ==
  << handDetected, currentNoteIndex, lastNoteChangeY, lastNoteChangeTime >>
shownVars == << currentNote, currentOctaveShift >>
recordingVars ==
  << isRecording, recordedNotes, recordingStartTime, selectedNoteIndices >>
playbackVars == << isPlayingRecording, chains >>
systemVars == << startPc, isRunning, canvasWidth >>

(* --------------------------- the tone sink ----------------------------- *)
\* the Playback Trigger as seen by one handler: the flag, the frequency held
\* by the synth, the commands the handler has sent to the synth so far, and
\* the path (live or playback) that sounded the note
SinkNow ==
  [playing |-> isPlaying, frequency |-> synthFrequency, cmds |-> << >>,
   source |-> soundSource]

\* a sink that is taken to be ready whatever the state of the synth
SinkReadyAlways(hasSynth, audioReady) == TRUE

\* app.synth && app.audioInitialized
SinkReady(hasSynth, audioReady) == hasSynth /\ audioReady

\* a playNote that triggers the envelope on every call
PlayNoteRetriggers(s, hasSynth, audioReady, frequency, source) ==
  IF ~SinkReady(hasSynth, audioReady) THEN s
  ELSE [playing |-> TRUE, frequency |-> frequency, source |-> source,
        cmds |-> Append(s.cmds, [cmd |-> "attack", frequency |-> frequency])]

\* playNote(frequency), called by the path `source`
PlayNote(s, hasSynth, audioReady, frequency, source) ==
  IF ~SinkReady(hasSynth, audioReady) THEN s
  ELSE IF ~s.playing
  THEN [playing |-> TRUE, frequency |-> frequency, source |-> source,
        cmds |-> Append(s.cmds, [cmd |-> "attack", frequency |-> frequency])]
  ELSE [playing |-> TRUE, frequency |-> frequency, source |-> source,
        cmds |-> Append(s.cmds, [cmd |-> "retarget", frequency |-> frequency])]

\* a stopNote that leaves the note sounding
StopNoteNoRelease(s, hasSynth) == s

\* stopNote()
StopNote(s, hasSynth) ==
  IF ~hasSynth \/ ~s.playing THEN s
  ELSE [playing |-> FALSE, frequency |-> s.frequency, source |-> "none",
        cmds |-> Append(s.cmds, [cmd |-> "release", frequency |-> s.frequency])]

\* the handler leaves the sink in state s
SetSink(s) ==
  /\ isPlaying' = s.playing
  /\ synthFrequency' = s.frequency
  /\ soundSource' = s.source

\* what a handler leaves in ev: the fields a handler does not set.
\*  op         the handler (frames, timers, playback buttons, Record, Clear,
\*             Stop and the waveform dropdown only)
\*  cmds       the commands it sent to the synth
\*  y          pointer y of a hand frame
\*  committed  the hand frame committed a note change
\*  preHand    handDetected before the frame
\*  preSource  soundSource before the handler
\*  wasActive  isPlayingRecording before the handler
\*  afterStop  the handler before this one was a playback button stopping a run
\*  alert      the handler called alert()
\*  stale      the timer's run had been stopped by the user
\*  exact      every timer of the chain fired at its requested time
\*  dirty      the buffer was emptied or replaced since the run started
\*  noteIndices  the noteIndices of the timer's run
\*  pos        the position in noteIndices that playNext played (-1: none)
\*  gap        time since the chain's previous playNote, when playNext played
\*             a note or found all its notes played (-1: none)
\*  threw      playNext ended with a TypeError, the frame with an Error
\*  x          pointer x of a hand frame
\*  z          mean depth of a hand frame
NoEv ==
  [op |-> "none", cmds |-> << >>, y |-> 0, committed |-> FALSE, preHand |-> FALSE,
   preSource |-> "none", wasActive |-> FALSE, afterStop |-> FALSE,
   alert |-> FALSE, stale |-> FALSE, exact |-> FALSE, dirty |-> FALSE,
   noteIndices |-> << >>, pos |-> -1, gap |-> -1, threw |-> FALSE, x |-> 0,
   z |-> 0]

PlaybackButtons == {"playRecording", "playSelectedNotes"}

\* the handler that ran last was a playback button that stopped a run
StoppedRun == ev.op \in PlaybackButtons /\ ev.wasActive /\ ~ev.alert

(* ------------------------------- Init ---------------------------------- *)
\* performance.now() counts from the start of navigation: when the first
\* handler runs, at least MIN_NOTE_CHANGE_INTERVAL ms have passed
Init ==
  /\ now = MIN_NOTE_CHANGE_INTERVAL
  /\ startPc = "idle"
  /\ isRunning = FALSE
  /\ canvasWidth = DefaultCanvasWidth
  /\ audioInitialized = FALSE
  /\ synth = FALSE
  /\ isPlaying = FALSE
  /\ synthFrequency = 0
  /\ synthVolume = 0
  /\ baseVolume = DefaultBaseVolume
  /\ dynamicVolumeMultiplier = 1000
  /\ handDetected = FALSE
  /\ currentNote = -1
  /\ currentNoteIndex = -1
  /\ lastNoteChangeY = 0
  /\ lastNoteChangeTime = 0
  /\ currentOctaveShift = 0
  /\ isRecording = FALSE
  /\ recordedNotes = << >>
  /\ recordingStartTime = 0
  /\ isPlayingRecording = FALSE
  /\ selectedNoteIndices = {}
  /\ chains = << >>
  /\ soundSource = "none"
  /\ ev = NoEv

(* ------------------------------ the clock ------------------------------ *)
Tick(d) ==
  /\ now + d <= MaxTime
  /\ now' = now + d
  /\ ev' = NoEv
  /\ UNCHANGED << systemVars, audioVars, volumeVars, selectorVars, shownVars,
                  recordingVars, playbackVars >>

(* ------------------------ startSystem / stopSystem --------------------- *)
\* click on Start: startSystem runs up to its first await
\* (the Start button is disabled while startSystem runs and while running)
StartSystemBegin ==
  /\ startPc = "idle"
  /\ ~isRunning
  /\ startPc' = "audio"
  /\ ev' = NoEv
  /\ UNCHANGED << now, isRunning, canvasWidth, audioVars, volumeVars, selectorVars, shownVars,
                  recordingVars, playbackVars >>

\* initializeAudio completes: a new synth unless audio is already initialized;
\* baseVolume is read from the slider (which holds baseVolume) and
\* updateVolume() sets the volume of the new synth
InitializeAudio ==
  /\ startPc = "audio"
  /\ startPc' = "camera"
  /\ IF audioInitialized
     THEN UNCHANGED << audioInitialized, synth, synthFrequency, synthVolume >>
     ELSE /\ synth' = TRUE
          /\ synthFrequency' = 0
          /\ synthVolume' = SynthVolumeOf(baseVolume, dynamicVolumeMultiplier)
          /\ audioInitialized' = TRUE
  /\ ev' = NoEv
  /\ UNCHANGED << now, isRunning, canvasWidth, isPlaying, soundSource, volumeVars,
                  selectorVars, shownVars, recordingVars, playbackVars >>

\* initializeHandTracking and startCamera complete (ok) or throw (~ok);
\* startCamera sets canvas.width = video.videoWidth
StartSystemEndWith(ok, videoWidth) ==
  /\ startPc = "camera"
  /\ startPc' = "idle"
  /\ isRunning' = ok
  /\ canvasWidth' = IF ok THEN videoWidth ELSE canvasWidth
  /\ ev' = NoEv
  /\ UNCHANGED << now, audioVars, volumeVars, selectorVars, shownVars,
                  recordingVars, playbackVars >>

\* the same with a camera that delivers the ideal width
StartSystemEnd(ok) == StartSystemEndWith(ok, CanvasWidth)

\* a Stop that disposes of the synth without stopNote()
StopSystemKeepsNote ==
  /\ isRunning
  /\ ev' = [NoEv EXCEPT !.op = "stopSystem", !.preSource = soundSource,
                        !.wasActive = isPlayingRecording]
  /\ isRunning' = FALSE
  /\ synth' = FALSE
  /\ audioInitialized' = FALSE
  /\ handDetected' = FALSE
  /\ currentNote' = -1
  /\ currentNoteIndex' = -1
  /\ dynamicVolumeMultiplier' = 1000
  /\ UNCHANGED << now, startPc, canvasWidth, sinkVars, synthVolume, baseVolume,
                  lastNoteChangeY, lastNoteChangeTime, currentOctaveShift,
                  recordingVars, playbackVars >>

\* click on Stop (the Stop button is enabled while the system is running)
StopSystem ==
  /\ isRunning
  /\ SetSink(StopNote(SinkNow, synth))
  /\ ev' = [NoEv EXCEPT !.op = "stopSystem",
                        !.cmds = StopNote(SinkNow, synth).cmds,
                        !.preSource = soundSource,
                        !.wasActive = isPlayingRecording]
  /\ isRunning' = FALSE
  /\ UNCHANGED canvasWidth
  /\ synth' = FALSE
  /\ audioInitialized' = FALSE
  /\ handDetected' = FALSE
  /\ currentNote' = -1
  /\ currentNoteIndex' = -1
  /\ dynamicVolumeMultiplier' = 1000
  /\ UNCHANGED << now, startPc, synthVolume, baseVolume, lastNoteChangeY,
                  lastNoteChangeTime, currentOctaveShift, recordingVars,
                  playbackVars >>

(* ----------------------------- the frame path -------------------------- *)
\* a recorder that stores the absolute time of the note change
RecordedNoteAbsolute(t, startTime, noteIndex, octaveShift) ==
  [timestamp |-> t, noteIndex |-> noteIndex, octaveShift |-> octaveShift,
   frequency |-> GetFrequencyWithOctave(NOTES[noteIndex + 1].frequency, octaveShift)]

\* a recorder that stores the frequency of the note without its octave
RecordedNoteBase(t, startTime, noteIndex, octaveShift) ==
  [timestamp |-> t - startTime, noteIndex |-> noteIndex, octaveShift |-> octaveShift,
   frequency |-> NOTES[noteIndex + 1].frequency]

\* recordNote(), called by mapPositionToNote after a committed note change:
\* it reads app.currentOctaveShift, which updateOctaveShift sets later in the frame
RecordedNote(t, startTime, noteIndex, octaveShift) ==
  [timestamp |-> t - startTime, noteIndex |-> noteIndex, octaveShift |-> octaveShift,
   frequency |-> GetFrequencyWithOctave(NOTES[noteIndex + 1].frequency, octaveShift)]

\* onHandsResults for a frame that passes the frame-skipping gate, hand detected:
\* extractPointerFinger, mapPositionToNote (with recordNote),
\* calculateDynamicVolume (with updateVolume), updateOctaveShift, playNote
HandFrame(f) ==
  LET pointerFinger == ExtractPointerFinger(f, canvasWidth)
      y == pointerFinger.y
      noteIndex == HysteresisIndex(RawNoteIndex(y), y, currentNoteIndex, lastNoteChangeY)
      commit == noteIndex # currentNoteIndex /\ RateAllows(now, lastNoteChangeTime)
      note1 == IF commit THEN noteIndex ELSE currentNote
      mult == DynamicVolumeOf(pointerFinger.x, canvasWidth)
      octave == OctaveOf(f.z)
      s == IF note1 # -1
           THEN PlayNote(SinkNow, synth, audioInitialized,
                         GetFrequencyWithOctave(NOTES[note1 + 1].frequency, octave),
                         "live")
           ELSE SinkNow
  IN  /\ handDetected' = TRUE
      /\ IF commit
         THEN /\ currentNoteIndex' = noteIndex
              /\ lastNoteChangeY' = y
              /\ lastNoteChangeTime' = now
         ELSE UNCHANGED << currentNoteIndex, lastNoteChangeY, lastNoteChangeTime >>
      /\ currentNote' = note1
      /\ IF commit /\ isRecording
         THEN /\ Len(recordedNotes) < MaxNotes
              /\ recordedNotes' =
                   Append(recordedNotes,
                          RecordedNote(now, recordingStartTime, noteIndex,
                                       currentOctaveShift))
              /\ selectedNoteIndices' = selectedNoteIndices \cup {Len(recordedNotes)}
         ELSE UNCHANGED << recordedNotes, selectedNoteIndices >>
      /\ dynamicVolumeMultiplier' = mult
      /\ \E threw \in VolumeThrows(synth, SynthVolumeOf(baseVolume, mult)) :
           /\ synthVolume' = IF synth /\ ~threw
                             THEN SynthVolumeOf(baseVolume, mult)
                             ELSE synthVolume
           /\ currentOctaveShift' = IF threw THEN currentOctaveShift ELSE octave
           /\ SetSink(IF threw THEN SinkNow ELSE s)
           /\ ev' = [NoEv EXCEPT !.op = "handFrame",
                                 !.cmds = IF threw THEN << >> ELSE s.cmds,
                                 !.y = y, !.x = pointerFinger.x, !.z = f.z,
                                 !.committed = commit, !.preHand = handDetected,
                                 !.preSource = soundSource,
                                 !.wasActive = isPlayingRecording,
                                 !.threw = threw]

\* a no-hand branch that only notes the absence of the hand
NoHandFrameKeepsNote ==
  /\ handDetected' = FALSE
  /\ ev' = [NoEv EXCEPT !.op = "noHandFrame", !.preHand = handDetected,
                        !.preSource = soundSource,
                        !.wasActive = isPlayingRecording]
  /\ UNCHANGED << sinkVars, currentNote, currentNoteIndex, dynamicVolumeMultiplier,
                  lastNoteChangeY, lastNoteChangeTime, currentOctaveShift,
                  recordedNotes, selectedNoteIndices, synthVolume >>

\* onHandsResults for a frame that passes the frame-skipping gate, no hand
NoHandFrame ==
  LET s == StopNote(SinkNow, synth)
  IN  /\ handDetected' = FALSE
      /\ SetSink(s)
      /\ currentNote' = -1
      /\ currentNoteIndex' = -1
      /\ dynamicVolumeMultiplier' = 1000
      /\ ev' = [NoEv EXCEPT !.op = "noHandFrame", !.cmds = s.cmds,
                            !.preHand = handDetected, !.preSource = soundSource,
                            !.wasActive = isPlayingRecording]
      /\ UNCHANGED << lastNoteChangeY, lastNoteChangeTime, currentOctaveShift,
                      recordedNotes, selectedNoteIndices, synthVolume >>

OnHandsResults(f) ==
  /\ isRunning
  /\ IF f.hand THEN HandFrame(f) ELSE NoHandFrame
  /\ UNCHANGED << now, systemVars, audioInitialized, synth, baseVolume, isRecording,
                  recordingStartTime, playbackVars >>

(* ------------------------------ recording ------------------------------ *)
\* the pending chains after the buffer is emptied or replaced (history)
Disturbed(cs) == [i \in 1 .. Len(cs) |-> [cs[i] EXCEPT !.dirty = TRUE]]

\* a Record button that empties the buffer when it stops the recording, too
ToggleRecordingClearsOnStop ==
  /\ IF ~audioInitialized
     THEN UNCHANGED << recordingVars, chains >>
     ELSE /\ isRecording' = ~isRecording
          /\ recordedNotes' = << >>
          /\ selectedNoteIndices' = {}
          /\ recordingStartTime' = IF isRecording THEN recordingStartTime ELSE now
          /\ chains' = Disturbed(chains)
  /\ ev' = [NoEv EXCEPT !.op = "toggleRecording"]
  /\ UNCHANGED << now, systemVars, audioVars, volumeVars, selectorVars, shownVars,
                  isPlayingRecording >>

\* a Record button that, starting a recording, keeps the selection made on the
\* recording before it
ToggleRecordingKeepsSelection ==
  /\ IF ~audioInitialized
     THEN UNCHANGED << recordingVars, chains >>
     ELSE IF ~isRecording
     THEN /\ isRecording' = TRUE
          /\ recordedNotes' = << >>
          /\ recordingStartTime' = now
          /\ chains' = Disturbed(chains)
          /\ UNCHANGED selectedNoteIndices
     ELSE /\ isRecording' = FALSE
          /\ UNCHANGED << recordedNotes, selectedNoteIndices, recordingStartTime,
                          chains >>
  /\ ev' = [NoEv EXCEPT !.op = "toggleRecording"]
  /\ UNCHANGED << now, systemVars, audioVars, volumeVars, selectorVars, shownVars,
                  isPlayingRecording >>

\* a Record button that works without audio
ToggleRecordingUnguarded ==
  /\ IF ~isRecording
     THEN /\ isRecording' = TRUE
          /\ recordedNotes' = << >>
          /\ selectedNoteIndices' = {}
          /\ recordingStartTime' = now
          /\ chains' = Disturbed(chains)
     ELSE /\ isRecording' = FALSE
          /\ UNCHANGED << recordedNotes, selectedNoteIndices, recordingStartTime,
                          chains >>
  /\ ev' = [NoEv EXCEPT !.op = "toggleRecording"]
  /\ UNCHANGED << now, systemVars, audioVars, volumeVars, selectorVars, shownVars,
                  isPlayingRecording >>

\* click on Record
ToggleRecording ==
  /\ IF ~audioInitialized
     THEN UNCHANGED << recordingVars, chains >>
     ELSE IF ~isRecording
     THEN /\ isRecording' = TRUE
          /\ recordedNotes' = << >>
          /\ selectedNoteIndices' = {}
          /\ recordingStartTime' = now
          /\ chains' = Disturbed(chains)
     ELSE /\ isRecording' = FALSE
          /\ UNCHANGED << recordedNotes, selectedNoteIndices, recordingStartTime,
                          chains >>
  /\ ev' = [NoEv EXCEPT !.op = "toggleRecording"]
  /\ UNCHANGED << now, systemVars, audioVars, volumeVars, selectorVars, shownVars,
                  isPlayingRecording >>

\* a Clear button that says nothing when the buffer is empty already
ClearRecordingQuiet(confirmed) ==
  /\ IF Len(recordedNotes) = 0
     THEN /\ ev' = [NoEv EXCEPT !.op = "clearRecording"]
          /\ UNCHANGED << recordedNotes, selectedNoteIndices, chains >>
     ELSE IF confirmed
     THEN /\ recordedNotes' = << >>
          /\ selectedNoteIndices' = {}
          /\ chains' = Disturbed(chains)
          /\ ev' = [NoEv EXCEPT !.op = "clearRecording", !.alert = TRUE]
     ELSE /\ ev' = NoEv
          /\ UNCHANGED << recordedNotes, selectedNoteIndices, chains >>
  /\ UNCHANGED << now, systemVars, audioVars, volumeVars, selectorVars, shownVars,
                  isRecording, recordingStartTime, isPlayingRecording >>

\* click on Clear; confirmed is the answer to confirm()
ClearRecording(confirmed) ==
  /\ IF Len(recordedNotes) = 0
     THEN /\ ev' = [NoEv EXCEPT !.op = "clearRecording", !.alert = TRUE]
          /\ UNCHANGED << recordedNotes, selectedNoteIndices, chains >>
     ELSE IF confirmed
     THEN /\ recordedNotes' = << >>
          /\ selectedNoteIndices' = {}
          /\ chains' = Disturbed(chains)
          /\ ev' = [NoEv EXCEPT !.op = "clearRecording", !.alert = TRUE]
     ELSE /\ ev' = NoEv
          /\ UNCHANGED << recordedNotes, selectedNoteIndices, chains >>
  /\ UNCHANGED << now, systemVars, audioVars, volumeVars, selectorVars, shownVars,
                  isRecording, recordingStartTime, isPlayingRecording >>

\* change of the checkbox of recorded note index
ToggleNoteSelection(index) ==
  /\ index < Len(recordedNotes)
  /\ selectedNoteIndices' =
       IF index \in selectedNoteIndices
       THEN selectedNoteIndices \ {index}
       ELSE selectedNoteIndices \cup {index}
  /\ ev' = NoEv
  /\ UNCHANGED << now, systemVars, audioVars, volumeVars, selectorVars, shownVars,
                  isRecording, recordedNotes, recordingStartTime, playbackVars >>

SelectAllNotes ==
  /\ selectedNoteIndices' = selectedNoteIndices \cup (0 .. (Len(recordedNotes) - 1))
  /\ ev' = NoEv
  /\ UNCHANGED << now, systemVars, audioVars, volumeVars, selectorVars, shownVars,
                  isRecording, recordedNotes, recordingStartTime, playbackVars >>

DeselectAllNotes ==
  /\ selectedNoteIndices' = {}
  /\ ev' = NoEv
  /\ UNCHANGED << now, systemVars, audioVars, volumeVars, selectorVars, shownVars,
                  isRecording, recordedNotes, recordingStartTime, playbackVars >>

(* ------------------------------- playback ------------------------------ *)
\* setTimeout(playNext, delay): the time at which the timer may fire
SetTimeout(t, delay) == t + Max(delay, 0)

\* a scheduler that replays at the recorded absolute times
NextDelayAbsolute(nextTimestamp, thisTimestamp) == nextTimestamp

\* delay from the note just played to the next note of the run
NextDelay(nextTimestamp, thisTimestamp) == nextTimestamp - thisTimestamp

\* a run that polls for its end as it polls for a note
TailTimeoutPolls(t) == SetTimeout(t, PollInterval)

\* setTimeout(playNext, 500) after the last note of the run
TailTimeout(t) == SetTimeout(t, TailDelay)

\* delay of a run whose next note is not yet due
WaitDelay(delayUntilNext) == Min(delayUntilNext, PollInterval)

\* first test of playNext: the run is over
RunIsOver(playingRecording, noteIdx, count) ==
  ~playingRecording \/ noteIdx >= count

\* playNext() of closure c, called with app.isPlayingRecording = playingRecording
\* and the sink in state s. next holds the closure with its new timer (empty
\* when the chain ends); threw: a TypeError on an undefined recorded note
PlayNext(c, playingRecording, s) ==
  LET same == [playingRecording |-> playingRecording, sink |-> s,
               note |-> currentNote, octave |-> currentOctaveShift,
               next |-> << >>, pos |-> -1, gap |-> -1, threw |-> FALSE]
  IN
  IF RunIsOver(playingRecording, c.noteIdx, Len(c.noteIndices))
  THEN [same EXCEPT !.playingRecording = FALSE, !.sink = StopNote(s, synth),
                     !.gap = IF c.noteIdx >= Len(c.noteIndices) /\ c.lastFire # -1
                             THEN now - c.lastFire ELSE -1]
  ELSE
    LET recordedNoteIdx == c.noteIndices[c.noteIdx + 1] IN
    IF recordedNoteIdx >= Len(recordedNotes)
    THEN [same EXCEPT !.threw = TRUE]
    ELSE
      LET note == recordedNotes[recordedNoteIdx + 1]
          elapsed == now - c.startTime
          nextNoteTime == note.timestamp
      IN
      IF elapsed >= nextNoteTime
      THEN
        LET ready == SinkReady(synth, audioInitialized)
            played ==
              [same EXCEPT
                 !.sink = IF ready
                          THEN PlayNote(s, synth, audioInitialized, note.frequency,
                                        "playback")
                          ELSE s,
                 !.note = IF ready THEN note.noteIndex ELSE currentNote,
                 !.octave = IF ready THEN note.octaveShift ELSE currentOctaveShift,
                 !.pos = c.noteIdx,
                 !.gap = IF ready /\ c.lastFire # -1 THEN now - c.lastFire ELSE -1]
            noteIdx == c.noteIdx + 1
            c1 == [c EXCEPT !.noteIdx = noteIdx,
                            !.lastFire = IF ready THEN now ELSE -1]
        IN
        IF noteIdx < Len(c.noteIndices)
        THEN IF c.noteIndices[noteIdx + 1] >= Len(recordedNotes)
             THEN [played EXCEPT !.threw = TRUE]
             ELSE LET nextNote == recordedNotes[c.noteIndices[noteIdx + 1] + 1]
                  IN  [played EXCEPT !.next =
                         << [c1 EXCEPT !.due =
                               SetTimeout(now, NextDelay(nextNote.timestamp,
                                                         nextNoteTime))] >>]
        ELSE [played EXCEPT !.next = << [c1 EXCEPT !.due = TailTimeout(now)] >>]
      ELSE
        [same EXCEPT !.next =
           << [c EXCEPT !.due = SetTimeout(now, WaitDelay(nextNoteTime - elapsed))] >>]

\* the effect of one call of playNext on the state
ApplyPlayNext(r, newChains, e) ==
  /\ isPlayingRecording' = r.playingRecording
  /\ SetSink(r.sink)
  /\ currentNote' = r.note
  /\ currentOctaveShift' = r.octave
  /\ chains' = newChains
  /\ ev' = [e EXCEPT !.cmds = r.sink.cmds, !.pos = r.pos, !.gap = r.gap,
                     !.threw = r.threw]

\* the pending timer of the i-th playNext chain fires (at its time or later)
TimerFires(i) ==
  /\ i \in 1 .. Len(chains)
  /\ now >= chains[i].due
  /\ LET c == [chains[i] EXCEPT !.exact = @ /\ now = chains[i].due]
         r == PlayNext(c, isPlayingRecording, SinkNow)
     IN  ApplyPlayNext(r,
                       SubSeq(chains, 1, i - 1) \o r.next
                         \o SubSeq(chains, i + 1, Len(chains)),
                       [NoEv EXCEPT !.op = "timer", !.stale = c.cancelled,
                                    !.exact = c.exact, !.dirty = c.dirty,
                                    !.noteIndices = c.noteIndices,
                                    !.preSource = soundSource,
                                    !.wasActive = isPlayingRecording])
  /\ UNCHANGED << now, systemVars, audioInitialized, synth, synthVolume, volumeVars,
                  selectorVars, recordingVars >>

\* the pending chains after the user has stopped the run (history)
Cancelled(cs) == [i \in 1 .. Len(cs) |-> [cs[i] EXCEPT !.cancelled = TRUE]]

\* playSequence(noteIndices), called by the handler op
PlaySequence(noteIndices, op) ==
  LET e == [NoEv EXCEPT !.op = op, !.wasActive = isPlayingRecording,
                        !.afterStop = StoppedRun, !.preSource = soundSource]
  IN
  IF isPlayingRecording
  THEN LET s == StopNote(SinkNow, synth)
       IN  /\ isPlayingRecording' = FALSE
           /\ SetSink(s)
           /\ chains' = Cancelled(chains)
           /\ ev' = [e EXCEPT !.cmds = s.cmds]
           /\ UNCHANGED shownVars
  ELSE /\ Len(chains) < MaxChains
       /\ LET c == [noteIndices |-> noteIndices, noteIdx |-> 0, startTime |-> now,
                    due |-> now, cancelled |-> FALSE, exact |-> TRUE,
                    dirty |-> FALSE, lastFire |-> -1]
              r == PlayNext(c, TRUE, SinkNow)
          IN  ApplyPlayNext(r, chains \o r.next, e)

\* a playback button that does nothing, silently, when its list is empty
EmptyPlaybackSilent(op) ==
  /\ ev' = [NoEv EXCEPT !.op = op, !.wasActive = isPlayingRecording,
                        !.afterStop = StoppedRun, !.preSource = soundSource]
  /\ UNCHANGED << sinkVars, shownVars, playbackVars >>

\* a playback button whose list of notes is empty: alert() and nothing else
EmptyPlayback(op) ==
  /\ ev' = [NoEv EXCEPT !.op = op, !.alert = TRUE, !.wasActive = isPlayingRecording,
                        !.afterStop = StoppedRun, !.preSource = soundSource]
  /\ UNCHANGED << sinkVars, shownVars, playbackVars >>

\* click on Playback
PlayRecording ==
  /\ IF Len(recordedNotes) = 0
     THEN EmptyPlayback("playRecording")
     ELSE PlaySequence(IndexSeq(Len(recordedNotes)), "playRecording")
  /\ UNCHANGED << now, systemVars, audioInitialized, synth, synthVolume, volumeVars,
                  selectorVars, recordingVars >>

\* click on Play Selected
PlaySelectedNotes ==
  /\ LET selected == SortedSeq(selectedNoteIndices)
     IN  IF Len(selected) = 0
         THEN EmptyPlayback("playSelectedNotes")
         ELSE PlaySequence(selected, "playSelectedNotes")
  /\ UNCHANGED << now, systemVars, audioInitialized, synth, synthVolume, volumeVars,
                  selectorVars, recordingVars >>

(* ------------------------- waveform and volume ------------------------- *)
\* a waveform dropdown that stops the note and does not resume it
WaveformChangeDropsNote ==
  /\ IF synth /\ audioInitialized
     THEN LET s1 == StopNote(SinkNow, synth)
          IN  /\ SetSink([s1 EXCEPT !.frequency = 0])
              /\ synthVolume' = SynthVolumeOf(baseVolume, dynamicVolumeMultiplier)
              /\ ev' = [NoEv EXCEPT !.op = "waveform", !.cmds = s1.cmds,
                                    !.preSource = soundSource]
     ELSE /\ ev' = NoEv
          /\ UNCHANGED << sinkVars, synthVolume >>
  /\ UNCHANGED << now, systemVars, audioInitialized, synth, volumeVars, selectorVars,
                  shownVars, recordingVars, playbackVars >>

\* change of the waveform dropdown: the synth is replaced by a new one
WaveformChange ==
  /\ IF synth /\ audioInitialized
     THEN LET wasPlaying == isPlaying
              currentFreq == synthFrequency
              s1 == IF wasPlaying THEN StopNote(SinkNow, synth) ELSE SinkNow
              s2 == IF wasPlaying /\ currentFreq # 0
                    THEN [playing |-> TRUE, frequency |-> currentFreq,
                          source |-> soundSource,
                          cmds |-> Append(s1.cmds, [cmd |-> "attack",
                                                    frequency |-> currentFreq])]
                    ELSE [s1 EXCEPT !.frequency = 0]
              volume == SynthVolumeOf(baseVolume, dynamicVolumeMultiplier)
          IN  \E threw \in VolumeThrows(TRUE, volume) :
                \* the new synth holds the volume 0 dB until updateVolume sets it
                /\ SetSink(IF threw THEN [s1 EXCEPT !.frequency = 0] ELSE s2)
                /\ synthVolume' = IF threw THEN 0 ELSE volume
                /\ ev' = [NoEv EXCEPT !.op = "waveform",
                                      !.cmds = IF threw THEN s1.cmds ELSE s2.cmds,
                                      !.preSource = soundSource, !.threw = threw]
     ELSE /\ ev' = NoEv
          /\ UNCHANGED << sinkVars, synthVolume >>
  /\ UNCHANGED << now, systemVars, audioInitialized, synth, volumeVars, selectorVars,
                  shownVars, recordingVars, playbackVars >>

\* input on the volume slider
VolumeSlider(volume) ==
  /\ baseVolume' = volume
  /\ \E threw \in VolumeThrows(synth, SynthVolumeOf(volume, dynamicVolumeMultiplier)) :
       synthVolume' = IF synth /\ ~threw
                      THEN SynthVolumeOf(volume, dynamicVolumeMultiplier)
                      ELSE synthVolume
  /\ ev' = NoEv
  /\ UNCHANGED << now, systemVars, audioInitialized, synth, sinkVars,
                  dynamicVolumeMultiplier, selectorVars, shownVars, recordingVars,
                  playbackVars >>

(* --------------------------- the specification ------------------------- *)
\* every handler of the program, every input
Next ==
  \/ \E d \in TickSteps \cup FrameSteps : Tick(d)
  \/ StartSystemBegin
  \/ InitializeAudio
  \/ \E ok \in BOOLEAN : StartSystemEnd(ok)
  \/ StopSystem
  \/ \E f \in Frames : OnHandsResults(f)
  \/ ToggleRecording
  \/ \E confirmed \in BOOLEAN : ClearRecording(confirmed)
  \/ \E index \in 0 .. (MaxNotes - 1) : ToggleNoteSelection(index)
  \/ SelectAllNotes
  \/ DeselectAllNotes
  \/ \E i \in 1 .. MaxChains : TimerFires(i)
  \/ PlayRecording
  \/ PlaySelectedNotes
  \/ WaveformChange
  \/ \E volume \in SliderValues : VolumeSlider(volume)

Spec == Init /\ [][Next]_vars

(* ------------------- the selector and the recorder --------------------- *)
\* start and stop of the system, frames, recording: the handlers that read or
\* write the state of the Note Selector and the recording buffer
NextSelector ==
  \/ \E d \in FrameSteps : now + d <= SelectorTime /\ Tick(d)
  \/ StartSystemBegin
  \/ InitializeAudio
  \/ \E ok \in BOOLEAN : StartSystemEnd(ok)
  \/ StopSystem
  \/ \E f \in Frames : OnHandsResults(f)
  \/ ToggleRecording

SpecSelector == Init /\ [][NextSelector]_vars

(* ------------------------------ the recorder --------------------------- *)
\* the handlers of the selector and the recorder, and Clear
NextRecorder ==
  \/ \E d \in FrameSteps : now + d <= SelectorTime /\ Tick(d)
  \/ StartSystemBegin
  \/ InitializeAudio
  \/ \E ok \in BOOLEAN : StartSystemEnd(ok)
  \/ StopSystem
  \/ \E f \in Frames : OnHandsResults(f)
  \/ ToggleRecording
  \/ \E confirmed \in BOOLEAN : ClearRecording(confirmed)

SpecRecorder == Init /\ [][NextRecorder]_vars

(* ----------------------- playback of a recording ----------------------- *)
\* The state after: Start (audio and camera succeed), Record, 50 ms, a frame
\* at y = 360 px, 100 ms, a frame at y = 126 px, 100 ms, a frame at y = 738 px,
\* a frame without a hand, Record (stop). Every frame has z = 0.05.
InitRecorded ==
  /\ now = 350
  /\ startPc = "idle"
  /\ isRunning = TRUE
  /\ canvasWidth = CanvasWidth
  /\ audioInitialized = TRUE
  /\ synth = TRUE
  /\ isPlaying = FALSE
  /\ synthFrequency = GetFrequencyWithOctave(NOTES[7].frequency, 2)
  /\ synthVolume = SynthVolumeOf(DefaultBaseVolume, 1000)
  /\ baseVolume = DefaultBaseVolume
  /\ dynamicVolumeMultiplier = 1000
  /\ handDetected = FALSE
  /\ currentNote = -1
  /\ currentNoteIndex = -1
  /\ lastNoteChangeY = 738
  /\ lastNoteChangeTime = 350
  /\ currentOctaveShift = 2
  /\ isRecording = FALSE
  /\ recordedNotes = << RecordedNote(150, 100, 3, 0), RecordedNote(250, 100, 1, 2),
                        RecordedNote(350, 100, 6, 2) >>
  /\ recordingStartTime = 100
  /\ isPlayingRecording = FALSE
  /\ selectedNoteIndices = {0, 1, 2}
  /\ chains = << >>
  /\ soundSource = "none"
  /\ ev = NoEv

\* the playback buttons, the timers, and the handlers that change the buffer
\* or the selection
NextPlayback ==
  \/ \E d \in TickSteps : now + d <= PlaybackTime /\ Tick(d)
  \/ \E confirmed \in BOOLEAN : ClearRecording(confirmed)
  \/ \E index \in 0 .. (MaxNotes - 1) : ToggleNoteSelection(index)
  \/ SelectAllNotes
  \/ DeselectAllNotes
  \/ \E i \in 1 .. MaxChains : TimerFires(i)
  \/ PlayRecording
  \/ PlaySelectedNotes

SpecPlayback == InitRecorded /\ [][NextPlayback]_vars

\* playback of all notes and of the selection with and without the second note
TimingToggles == {1}

NextTiming ==
  \/ \E d \in TickSteps : now + d <= PlaybackTime /\ Tick(d)
  \/ \E index \in TimingToggles : ToggleNoteSelection(index)
  \/ \E i \in 1 .. MaxChains : TimerFires(i)
  \/ PlayRecording
  \/ PlaySelectedNotes

SpecTiming == InitRecorded /\ [][NextTiming]_vars

\* frames of the live path during playback
LiveFrames == { f \in Frames : ~f.hand \/ f.y = 500 }

NextLive ==
  \/ \E d \in TickSteps : now + d <= PlaybackTime /\ Tick(d)
  \/ \E f \in LiveFrames : OnHandsResults(f)
  \/ \E i \in 1 .. MaxChains : TimerFires(i)
  \/ PlayRecording

SpecLive == InitRecorded /\ [][NextLive]_vars

\* frames, Record and playback of the whole recording together
NextTape ==
  \/ \E d \in TickSteps : now + d <= TapeTime /\ Tick(d)
  \/ \E f \in LiveFrames : OnHandsResults(f)
  \/ \E i \in 1 .. MaxChains : TimerFires(i)
  \/ PlayRecording
  \/ ToggleRecording

SpecTape == InitRecorded /\ [][NextTape]_vars

\* the playback buttons and their timers, Clear, Select All and Deselect All
NextButtons ==
  \/ \E d \in TickSteps : now + d <= PlaybackTime /\ Tick(d)
  \/ \E confirmed \in BOOLEAN : ClearRecording(confirmed)
  \/ SelectAllNotes
  \/ DeselectAllNotes
  \/ \E i \in 1 .. MaxChains : TimerFires(i)
  \/ PlayRecording
  \/ PlaySelectedNotes

SpecButtons == InitRecorded /\ [][NextButtons]_vars

\* runs over all notes or over a selection made while no timer is pending,
\* played to their end or stopped by the user
NextTail ==
  \/ \E d \in TailSteps : Tick(d)
  \/ \E i \in TimingToggles : Len(chains) = 0 /\ ToggleNoteSelection(i)
  \/ \E i \in 1 .. MaxChains : TimerFires(i)
  \/ PlaySelectedNotes

SpecTail == InitRecorded /\ [][NextTail]_vars

\* every handler that commands the synth, with Stop and a new Start of the
\* system, from the recorded state
NextSink ==
  \/ \E d \in TickSteps : now + d <= TapeTime /\ Tick(d)
  \/ StartSystemBegin
  \/ InitializeAudio
  \/ \E ok \in BOOLEAN : StartSystemEnd(ok)
  \/ StopSystem
  \/ \E f \in LiveFrames : OnHandsResults(f)
  \/ \E i \in 1 .. MaxChains : TimerFires(i)
  \/ PlayRecording
  \/ WaveformChange

SpecSink == InitRecorded /\ [][NextSink]_vars

\* the same, with a user who clicks Playback while the system is running
\* only: a timer that fires while the system is stopped belongs to a run that
\* was pending when Stop was clicked
NextStopped ==
  \/ \E d \in TickSteps : now + d <= TapeTime /\ Tick(d)
  \/ StartSystemBegin
  \/ InitializeAudio
  \/ \E ok \in BOOLEAN : StartSystemEnd(ok)
  \/ StopSystem
  \/ \E f \in LiveFrames : OnHandsResults(f)
  \/ \E i \in 1 .. MaxChains : TimerFires(i)
  \/ isRunning /\ PlayRecording
  \/ WaveformChange

SpecStopped == InitRecorded /\ [][NextStopped]_vars

\* one run after the other, each played to its end with nothing in between,
\* over all notes or without the second note
NextReplay ==
  \/ \E d \in TickSteps : Tick(d)
  \/ \E index \in TimingToggles : Len(chains) = 0 /\ ToggleNoteSelection(index)
  \/ \E i \in 1 .. MaxChains : TimerFires(i)
  \/ Len(chains) = 0 /\ PlaySelectedNotes

SpecReplay == InitRecorded /\ [][NextReplay]_vars

\* frames with the finger tip at the vertical centre of zone 3
MapperFrames ==
  {NoHand} \cup
  { [hand |-> TRUE, x |-> lx, y |-> 500, z |-> lz] : lx \in MapperXs, lz \in MapperZs }

\* the live path from pointer and depth to multiplier, volume, octave and
\* frequency, with a camera of the ideal width or of width 0
NextMapper ==
  \/ \E d \in FrameSteps : now + d <= SelectorTime /\ Tick(d)
  \/ StartSystemBegin
  \/ InitializeAudio
  \/ \E ok \in BOOLEAN, videoWidth \in VideoWidths : StartSystemEndWith(ok, videoWidth)
  \/ StopSystem
  \/ \E f \in MapperFrames : OnHandsResults(f)
  \/ \E volume \in MapperSliderValues : VolumeSlider(volume)

SpecMapper == Init /\ [][NextMapper]_vars

(* ------------------------- runs played to their end -------------------- *)
\* the clock does not pass the time at which a pending timer is due: a timer
\* fires at its requested time, other handlers may run before it at that time
TimelyTick(d) ==
  /\ \A i \in 1 .. Len(chains) : now + d <= chains[i].due
  /\ Tick(d)

\* the playback buttons (clicked up to LastStart), their timers, Clear, Record,
\* the selection and frames of the live path, up to the end of every run
NextRuns ==
  \/ \E d \in TickSteps : TimelyTick(d)
  \/ \E i \in 1 .. MaxChains : TimerFires(i)
  \/ /\ now <= LastStart
     /\ \/ \E confirmed \in BOOLEAN : ClearRecording(confirmed)
        \/ ToggleRecording
        \/ \E index \in TimingToggles : ToggleNoteSelection(index)
        \/ \E f \in LiveFrames : OnHandsResults(f)
        \/ PlayRecording
        \/ PlaySelectedNotes

\* time passes, and a timer that is due fires
FairRuns ==
  /\ WF_vars(\E d \in TickSteps : TimelyTick(d))
  /\ WF_vars(\E i \in 1 .. MaxChains : TimerFires(i))

SpecRuns == InitRecorded /\ [][NextRuns]_vars /\ FairRuns

(* ------------------------ the buffer and the selection ----------------- *)
\* Record, frames that append events, Clear and the three selection handlers
NextSelection ==
  \/ \E d \in TickSteps : now + d <= PlaybackTime /\ Tick(d)
  \/ \E f \in LiveFrames : OnHandsResults(f)
  \/ ToggleRecording
  \/ \E confirmed \in BOOLEAN : ClearRecording(confirmed)
  \/ \E index \in 0 .. (MaxNotes - 1) : ToggleNoteSelection(index)
  \/ SelectAllNotes
  \/ DeselectAllNotes

SpecSelection == InitRecorded /\ [][NextSelection]_vars

(* ------------------------- the recorded events ------------------------- *)
\* frames at two depths, the finger tip at the centre of zone 3
EventFrames ==
  {NoHand} \cup { [hand |-> TRUE, x |-> 500, y |-> 500, z |-> lz] : lz \in EventZs }

\* a recording made of these frames, with playback of the buffer (one run at
\* a time, played to the end of the clock) in between
NextEvents ==
  \/ \E d \in TickSteps : now + d <= TapeTime /\ Tick(d)
  \/ \E f \in EventFrames : OnHandsResults(f)
  \/ ToggleRecording
  \/ \E i \in 1 .. MaxChains : TimerFires(i)
  \/ Len(chains) = 0 /\ PlayRecording

SpecEvents == InitRecorded /\ [][NextEvents]_vars

(* ------------------------ the functions of utils.js -------------------- *)
\* the program's variables but ev
programVars ==
  << now, systemVars, audioVars, volumeVars, selectorVars, shownVars, recordingVars,
     playbackVars >>

\* the call before this one, when it was a call of the same function
PreviousCall(op) == IF ev.op = op THEN << ev >> ELSE << >>

\* zToOctaveShift(avgZ, r.minZ, r.maxZ), and the same depth given to
\* updateOctaveShift
CallZToOctaveShift(avgZ, r) ==
  /\ ev' = [op |-> "zToOctaveShift", avgZ |-> avgZ, minZ |-> r.minZ, maxZ |-> r.maxZ,
            octave |-> ZToOctaveShift(avgZ, r.minZ, r.maxZ),
            appOctave |-> OctaveOf(avgZ),
            previous |-> [k \in 1 .. Len(PreviousCall("zToOctaveShift")) |->
                           [avgZ |-> ev.avgZ, minZ |-> ev.minZ, maxZ |-> ev.maxZ,
                            octave |-> ev.octave, appOctave |-> ev.appOctave]]]
  /\ UNCHANGED programVars

\* calculateDynamicVolumeMultiplier(pointerX, canvasWidth), pointerX being
\* eighth / 8 of the width
CallCalculateDynamicVolumeMultiplier(eighth, width) ==
  LET pointerX == IF width = 0 THEN eighth ELSE (eighth * width) \div 8
  IN  /\ ev' = [op |-> "calculateDynamicVolumeMultiplier", pointerX |-> pointerX,
                canvasWidth |-> width,
                multiplier |-> CalculateDynamicVolumeMultiplier(pointerX, width),
                previous |-> [k \in 1 .. Len(PreviousCall("calculateDynamicVolumeMultiplier")) |->
                               [pointerX |-> ev.pointerX, canvasWidth |-> ev.canvasWidth,
                                multiplier |-> ev.multiplier]]]
      /\ UNCHANGED programVars

\* getFrequencyWithOctave(f, a), getFrequencyWithOctave(getFrequencyWithOctave(f, a), b)
\* and getFrequencyWithOctave(f, a + b), by utils.js and by app.js with
\* app.currentOctaveShift = a, b, a + b
CallGetFrequencyWithOctave(f, a, b) ==
  /\ ev' = [op |-> "getFrequencyWithOctave", baseFrequency |-> f, a |-> a, b |-> b,
            once |-> UtilsGetFrequencyWithOctave(f, a),
            twice |-> UtilsGetFrequencyWithOctave(UtilsGetFrequencyWithOctave(f, a), b),
            sum |-> UtilsGetFrequencyWithOctave(f, a + b),
            appOnce |-> GetFrequencyWithOctave(f, a),
            appTwice |-> GetFrequencyWithOctave(GetFrequencyWithOctave(f, a), b),
            appSum |-> GetFrequencyWithOctave(f, a + b)]
  /\ UNCHANGED programVars

NextUtils ==
  \/ \E avgZ \in Depths, r \in ZRanges : CallZToOctaveShift(avgZ, r)
  \/ \E eighth \in Eighths, width \in Widths :
       CallCalculateDynamicVolumeMultiplier(eighth, width)
  \/ \E f \in BaseFrequencies, a \in Shifts, b \in Shifts :
       CallGetFrequencyWithOctave(f, a, b)

SpecUtils == Init /\ [][NextUtils]_vars

(* ======================= properties of playback ======================== *)
\* the handler that ran last sent playNote to the synth
IssuedPlayNote ==
  \E k \in 1 .. Len(ev.cmds) : ev.cmds[k].cmd \in {"attack", "retarget"}

\* the closure i can still play a note of the buffer
CanPlay(i) == chains[i].noteIdx < Len(chains[i].noteIndices)

\* C1: cancellation of playback. When playSequence is invoked while a run is
\* active the tone state is Silent right afterwards, and no timer callback of
\* the cancelled run issues playNote again, whatever happens later (a new run
\* started before the cancelled run's timer fires included).
CancelledRunNeverPlays ==
  /\ (StoppedRun => ~isPlaying)
  /\ ~(ev.op = "timer" /\ ev.stale /\ IssuedPlayNote)

\* C2: only one playback run at a time. In every reachable state at most one
\* playNext timer chain is live: there are never two pending closures that can
\* both play notes of the buffer while a run is active.
AtMostOneLiveChain ==
  isPlayingRecording =>
    Cardinality({ i \in 1 .. Len(chains) : CanPlay(i) }) <= 1

\* C3: toggle semantics. Invoking playRecording or playSelectedNotes in a state
\* with isPlayingRecording = true stops the run: afterwards isPlayingRecording
\* is false and the sink is released, whatever the buffer and the selection
\* hold (emptied during the run included).
ToggleStopsRun ==
  (ev.op \in PlaybackButtons /\ ev.wasActive) => (~isPlayingRecording /\ ~isPlaying)

\* C4: cancellation is idempotent. Invoking the stop-playback operation a second
\* time right after it stopped a run leaves the state of the first invocation:
\* no run active and the tone state Silent; the second invocation starts no run.
SecondStopStartsNoRun ==
  (ev.op \in PlaybackButtons /\ ev.afterStop) => (~isPlayingRecording /\ ~isPlaying)

\* the recorded timestamp of the note at position k (0-based) of noteIndices
TimestampAt(noteIndices, k) == recordedNotes[noteIndices[k + 1] + 1].timestamp

\* a timer of a run that was not cancelled, whose timers all fired at their
\* requested times and whose buffer was not replaced, has played the note at
\* position ev.pos >= 1 of the run
PlayedOnTime ==
  /\ ev.op = "timer"
  /\ ~ev.stale
  /\ ~ev.dirty
  /\ ev.exact
  /\ ev.pos >= 1
  /\ ev.gap # -1

\* C5: relative timing of playback. In an uncancelled run over the buffer
\* indices s_0 < s_1 < ... < s_n whose timers fire exactly at their requested
\* delays, playNote for s_(k+1) is issued exactly timestamp[s_(k+1)] -
\* timestamp[s_k] after playNote for s_k, for all notes or a subset of them,
\* whatever the time at which the run starts.
RelativeTiming ==
  PlayedOnTime =>
    ev.gap = TimestampAt(ev.noteIndices, ev.pos) - TimestampAt(ev.noteIndices, ev.pos - 1)

\* a run over the first and the third note, started 100 ms after the recording
\* ended, has played the third note on time
RelativeTimingOfSubset ==
  /\ PlayedOnTime
  /\ ev.noteIndices = << 0, 2 >>
  /\ ev.gap = 200
  /\ IssuedPlayNote

\* C6: playback is independent of live input. While a playback run is active,
\* a frame callback of the live path (hand present or not) sends no command to
\* the synth that releases, re-attacks or retargets the note sounded by the run.
FramesLeaveRunAlone ==
  ~(/\ ev.op \in {"handFrame", "noHandFrame"}
    /\ ev.wasActive
    /\ ev.preSource = "playback"
    /\ ev.cmds # << >>)

Hysteresis ==
  [][ (/\ ev'.op = "handFrame"
       /\ currentNoteIndex # -1
       /\ Abs(ev'.y - lastNoteChangeY) < 20) =>
        currentNoteIndex' = currentNoteIndex
    ]_vars

\* a frame in another zone than the selected note, less than 20 px from the y
\* of the last change and 100 ms or more after it, has kept the selected note
HeldByHysteresis ==
  /\ ev.op = "handFrame"
  /\ ~ev.committed
  /\ ev.preHand
  /\ currentNoteIndex # -1
  /\ (ev.y * Len(NOTES)) \div CanvasHeight # currentNoteIndex
  /\ Abs(ev.y - lastNoteChangeY) < 20
  /\ now - lastNoteChangeTime >= 100

\* C9: reappearance after absence. The first processed frame in which the hand
\* is detected again after an absence commits a note unconditionally: after it
\* currentNoteIndex is the raw zone index of the frame's y, whatever the time
\* since the last committed change before the gap.
ReappearanceCommits ==
  (ev.op = "handFrame" /\ ~ev.preHand) =>
    currentNoteIndex = Clamp((ev.y * Len(NOTES)) \div CanvasHeight, 0, Len(NOTES) - 1)

\* y lies in zone j, more than 20 px from both of its boundaries
\* (the boundaries of zone j are j * zoneHeight and (j + 1) * zoneHeight, with
\* zoneHeight = canvas.height / NOTES.length)
InteriorOf(y, j) ==
  /\ j * CanvasHeight < Len(NOTES) * (y - 20)
  /\ Len(NOTES) * (y + 20) < (j + 1) * CanvasHeight

\* C10 as stated: for y more than 20 px inside zone j, a processed hand frame
\* at y yields currentNoteIndex = j regardless of the direction of entry and
\* of the prior selector state.
InteriorYieldsZone ==
  \A j \in NoteIndices :
    (ev.op = "handFrame" /\ InteriorOf(ev.y, j)) => currentNoteIndex = j

\* C10: direction independence inside a zone. For y more than 20 px inside
\* zone j, a processed hand frame at y that arrives 100 ms or more after the
\* last committed note change yields currentNoteIndex = j, regardless of the
\* direction of entry and of the rest of the prior selector state.
InteriorYieldsZoneInTime ==
  [][ \A j \in NoteIndices :
        (/\ ev'.op = "handFrame"
         /\ InteriorOf(ev'.y, j)
         /\ now' - lastNoteChangeTime >= 100) =>
          currentNoteIndex' = j
    ]_vars

\* a frame inside zone 3, not the first one after an absence of the hand, has
\* committed note 3
EnteredInterior ==
  /\ ev.op = "handFrame"
  /\ ev.committed
  /\ ev.preHand
  /\ InteriorOf(ev.y, 3)
  /\ currentNoteIndex = 3

(* ====================== properties of the recorder ===================== *)
\* the step is a frame that commits a note change while isRecording is true
CommitsWhileRecording == ev'.op = "handFrame" /\ ev'.committed /\ isRecording

\* the step is a Clear of a buffer that is not empty, confirmed by the user
ConfirmedClear == ev'.op = "clearRecording" /\ Len(recordedNotes) > 0

\* C11: recording round-trip. After the start of a recording, every committed
\* note change while isRecording is true appends exactly one event at the end
\* of the buffer (so N changes give N events in arrival order), timestamps
\* never decrease, nothing else appends; a confirmed clearRecording empties the
\* buffer and the selection; the start of a recording session leaves no event
\* of the session before it in the buffer or in the selection.
RecordingRoundTrip ==
  [][ /\ CommitsWhileRecording =>
           /\ Len(recordedNotes') = Len(recordedNotes) + 1
           /\ SubSeq(recordedNotes', 1, Len(recordedNotes)) = recordedNotes
           /\ recordedNotes'[Len(recordedNotes')].noteIndex = currentNoteIndex'
           /\ recordedNotes'[Len(recordedNotes')].timestamp = now' - recordingStartTime
      /\ Len(recordedNotes') > Len(recordedNotes) => CommitsWhileRecording
      /\ \A k \in 1 .. (Len(recordedNotes') - 1) :
           recordedNotes'[k].timestamp <= recordedNotes'[k + 1].timestamp
      /\ ConfirmedClear => (recordedNotes' = << >> /\ selectedNoteIndices' = {})
      /\ (~isRecording /\ isRecording') =>
           (recordedNotes' = << >> /\ selectedNoteIndices' = {})
    ]_vars

\* a frame has appended the second event of a session that started after the
\* first frame of the system
SecondEventAppended ==
  /\ ev.op = "handFrame"
  /\ ev.committed
  /\ isRecording
  /\ recordingStartTime > 100
  /\ Len(recordedNotes) = 2
  /\ recordedNotes[1].timestamp < recordedNotes[2].timestamp

\* C13: default selection. Every event appended during recording has its index
\* added to the selection: with no selection operation in between, after N
\* recorded events selectedNoteIndices = {0, ..., N-1}, and playSelectedNotes
\* plays the index sequence that playRecording plays.
DefaultSelection ==
  /\ selectedNoteIndices = 0 .. (Len(recordedNotes) - 1)
  /\ SortedSeq(selectedNoteIndices) = IndexSeq(Len(recordedNotes))

\* three events have been recorded and selected
ThreeSelected ==
  /\ Len(recordedNotes) = 3
  /\ selectedNoteIndices = {0, 1, 2}
  /\ SortedSeq(selectedNoteIndices) = << 0, 1, 2 >>

\* C17: input absence is recovered locally. After every processed frame that
\* reports no hand the Playback Trigger is Silent (a release was issued if a
\* note was sounding) and the selector is neutral: currentNoteIndex = -1,
\* currentNote = null, dynamicVolumeMultiplier = 1.0.
AbsenceResets ==
  ev.op = "noHandFrame" =>
    /\ ~isPlaying
    /\ ev.preSource # "none" => ev.cmds = << [cmd |-> "release", frequency |-> synthFrequency] >>
    /\ ev.preSource = "none" => ev.cmds = << >>
    /\ currentNoteIndex = -1
    /\ currentNote = -1
    /\ dynamicVolumeMultiplier = 1000
    /\ ~ev.threw

\* a frame without a hand has released the note that a frame was sounding
AbsenceReleased ==
  /\ ev.op = "noHandFrame"
  /\ ev.preHand
  /\ ev.preSource = "live"
  /\ Len(ev.cmds) = 1
  /\ ~isPlaying

\* the buffer after the step is the buffer before it with one event appended
AppendedOne ==
  /\ Len(recordedNotes') = Len(recordedNotes) + 1
  /\ SubSeq(recordedNotes', 1, Len(recordedNotes)) = recordedNotes

\* C12: the buffer changes only by append-while-recording or by wholesale
\* replace/clear. While isRecording is false a frame (committing or not) leaves
\* recordedNotes and selectedNoteIndices unchanged; stopping a recording clears
\* the flag and keeps buffer and selection; a playback firing never appends
\* to, reorders or modifies the buffer.
BufferChangesOnlyByRecorder ==
  [][ /\ (ev'.op = "handFrame" /\ ~isRecording) =>
           UNCHANGED << recordedNotes, selectedNoteIndices >>
      /\ (isRecording /\ ~isRecording') =>
           UNCHANGED << recordedNotes, selectedNoteIndices >>
      /\ ev'.op = "timer" =>
           UNCHANGED << recordedNotes, selectedNoteIndices, isRecording >>
      /\ recordedNotes' # recordedNotes =>
           \/ isRecording /\ AppendedOne
           \/ recordedNotes' = << >>
    ]_vars

\* a frame has committed a note change while isRecording was false and a
\* playback run was active, and the three recorded events are still there
CommitOffTheRecord ==
  /\ ev.op = "handFrame"
  /\ ev.committed
  /\ ev.wasActive
  /\ ~isRecording
  /\ Len(recordedNotes) = 3
  /\ selectedNoteIndices = {0, 1, 2}

\* the step is a click on Playback with an empty buffer, or on Play Selected
\* with an empty selection
EmptyRequest ==
  \/ ev'.op = "playRecording" /\ Len(recordedNotes) = 0
  \/ ev'.op = "playSelectedNotes" /\ selectedNoteIndices = {}

\* C14: an empty playback request is a reported user error. playSelectedNotes
\* with an empty selection and playRecording with an empty buffer report to
\* the user and start no run: isPlayingRecording, the tone state, the buffer,
\* the selection and the pending timers are as before, no command is sent.
EmptyRequestIsReported ==
  [][ EmptyRequest =>
        /\ ev'.alert
        /\ ev'.cmds = << >>
        /\ UNCHANGED << isPlayingRecording, isPlaying, synthFrequency, recordedNotes,
                        selectedNoteIndices, chains >>
    ]_vars

\* Play Selected was clicked with the three recorded notes deselected
EmptySelectionReported ==
  /\ ev.op = "playSelectedNotes"
  /\ ev.alert
  /\ selectedNoteIndices = {}
  /\ Len(recordedNotes) = 3
  /\ ~isPlayingRecording

\* C15: clearRecording on a buffer that is empty already reports the condition
\* to the user and changes no state: buffer, selection, recording flag and
\* playback state are as before; it is never a silent success.
EmptyClearIsReported ==
  [][ (ev'.op = "clearRecording" /\ Len(recordedNotes) = 0) =>
        /\ ev'.alert
        /\ UNCHANGED << now, startPc, isRunning, audioInitialized, synth, isPlaying,
                        synthFrequency, synthVolume, baseVolume,
                        dynamicVolumeMultiplier, handDetected, currentNote,
                        currentNoteIndex, lastNoteChangeY, lastNoteChangeTime,
                        currentOctaveShift, isRecording, recordedNotes,
                        recordingStartTime, isPlayingRecording,
                        selectedNoteIndices, chains, soundSource >>
    ]_vars

\* Clear was clicked while recording, before the first note of the first
\* recording was captured
EmptyClearReported ==
  /\ ev.op = "clearRecording"
  /\ ev.alert
  /\ isRecording
  /\ lastNoteChangeTime < recordingStartTime
  /\ recordedNotes = << >>

\* the Playback Trigger of the specification: Silent --attack--> Sounding,
\* Sounding --retarget--> Sounding, Sounding --release--> Silent
TriggerStep(state, cmd) ==
  IF state = "Silent" /\ cmd = "attack" THEN "Sounding"
  ELSE IF state = "Sounding" /\ cmd = "retarget" THEN "Sounding"
  ELSE IF state = "Sounding" /\ cmd = "release" THEN "Silent"
  ELSE "Invalid"

RECURSIVE TriggerAfter(_, _)
TriggerAfter(state, cmds) ==
  IF Len(cmds) = 0 THEN state
  ELSE TriggerAfter(TriggerStep(state, Head(cmds).cmd), Tail(cmds))

TriggerOf(playing) == IF playing THEN "Sounding" ELSE "Silent"

\* C16: the commands a handler sends to the synth follow the Playback Trigger
\* from the state isPlaying held before the handler to the state it holds
\* after it: an attack only when Silent, while Sounding only a retarget or a
\* release, a release only when Sounding; isPlaying changes with a command
\* only. Hence two attacks are always separated by a release.
PlaybackTrigger ==
  [][ TriggerAfter(TriggerOf(isPlaying), ev'.cmds) = TriggerOf(isPlaying') ]_vars

\* a playback timer called playNote while a live note was sounding: one
\* retarget, no attack
RetargetedWhileSounding ==
  /\ ev.op = "timer"
  /\ ev.preSource = "live"
  /\ Len(ev.cmds) = 1
  /\ ev.cmds[1].cmd = "retarget"
  /\ isPlaying

\* C18: while the synth is not initialized (synth = null or audioInitialized
\* = false) no handler, frame or playback timer, sends a command to the synth
\* or changes isPlaying, and playNext does not throw.
SinkNotReadyIsNoOp ==
  [][ (~synth \/ ~audioInitialized) =>
        /\ ev'.cmds = << >>
        /\ ~ev'.threw
        /\ isPlaying' = isPlaying
    ]_vars

\* a playback timer came to a note that was due while the synth was gone
DueNoteWithoutSink ==
  /\ ev.op = "timer"
  /\ ev.pos # -1
  /\ ~synth
  /\ ev.cmds = << >>
  /\ ~isPlaying

\* C19: after stopSystem, and until startSystem has succeeded again, isPlaying
\* is false and no handler sends a command to the synth (stopSystem itself
\* sends the release). SpecStopped starts with the system running: isRunning
\* is false from a Stop until the next successful Start.
SilentWhileStopped ==
  ~isRunning => /\ ~isPlaying
                /\ ev.op # "stopSystem" => ev.cmds = << >>

\* the step is a call of playNext by a timer of a run the user has not stopped
OwnTimer == ev'.op = "timer" /\ ~ev'.stale

\* the handler sent a release to the synth
Released(cmds) == \E k \in 1 .. Len(cmds) : cmds[k].cmd = "release"

\* C20: tail of a run. A timer of an uncancelled run that leaves the run
\* pending sends no release. The call of playNext that finds every selected
\* note played comes TailDelay (500 ms) or more after the playNote of the
\* final selected note; it sends the release when a note is sounding, leaves
\* isPlaying and isPlayingRecording false and sets no further timer.
TailThenRelease ==
  [][ OwnTimer =>
        /\ Len(chains') = Len(chains) => ~Released(ev'.cmds)
        /\ (ev'.pos = -1 /\ ev'.gap # -1) =>
             /\ ev'.gap >= TailDelay
             /\ Len(chains') = Len(chains) - 1
             /\ ~isPlayingRecording'
             /\ ~isPlaying'
             /\ isPlaying => ev'.cmds = << [cmd |-> "release", frequency |-> synthFrequency] >>
    ]_vars

\* the run over the three notes has ended, exactly TailDelay after its last
\* note, with the release of that note
RunEndedAfterTail ==
  /\ ev.op = "timer"
  /\ ~ev.stale
  /\ ev.noteIndices = << 0, 1, 2 >>
  /\ ev.pos = -1
  /\ ev.gap = TailDelay
  /\ Released(ev.cmds)
  /\ ev.preSource = "playback"
  /\ ~isPlayingRecording

(* ======================= properties of the mappers ===================== *)
\* C23: octave mapper. zToOctaveShift gives -2 at minZ and for every depth
\* below it, 2 at maxZ and for every depth above it, 0 at (minZ + maxZ) / 2,
\* and an integer in -2 .. 2 for every depth; with the default minZ and maxZ,
\* updateOctaveShift computes the same value.
OctaveMapper ==
  ev.op = "zToOctaveShift" =>
    /\ ev.octave \in -2 .. 2
    /\ ev.avgZ <= ev.minZ => ev.octave = -2
    /\ ev.avgZ >= ev.maxZ => ev.octave = 2
    /\ 2 * ev.avgZ = ev.minZ + ev.maxZ => ev.octave = 0
    /\ (ev.minZ = DefaultMinZ /\ ev.maxZ = DefaultMaxZ) => ev.appOctave = ev.octave

\* the depth half way between the default minZ and maxZ was mapped to 0, after
\* maxZ was mapped to 2
MidDepthIsNeutral ==
  /\ ev.op = "zToOctaveShift"
  /\ ev.minZ = DefaultMinZ
  /\ ev.maxZ = DefaultMaxZ
  /\ 2 * ev.avgZ = DefaultMinZ + DefaultMaxZ
  /\ ev.octave = 0
  /\ ev.appOctave = 0
  /\ Len(ev.previous) = 1
  /\ ev.previous[1].avgZ = DefaultMaxZ
  /\ ev.previous[1].octave = 2

\* C28: octave direction. Of two depths mapped with the same minZ and maxZ,
\* the more negative one (the closer hand) gets an octave shift greater than
\* or equal to that of the other, by zToOctaveShift and by updateOctaveShift.
CloserIsHigher ==
  (/\ ev.op = "zToOctaveShift"
   /\ Len(ev.previous) = 1
   /\ ev.previous[1].minZ = ev.minZ
   /\ ev.previous[1].maxZ = ev.maxZ
   /\ ev.previous[1].avgZ < ev.avgZ)
  => /\ ev.previous[1].octave >= ev.octave
     /\ ev.previous[1].appOctave >= ev.appOctave

\* C24: volume mapper. With the default options and a width W > 0,
\* calculateDynamicVolumeMultiplier gives 1.0 at W/2, 0.5 at 0 and left of it,
\* 1.5 at W and right of it, 1.25 at 3W/4; it never decreases when x grows and
\* stays within 0.5 .. 1.5; with W = 0 it gives 1.0 for every x.
VolumeMapper ==
  ev.op = "calculateDynamicVolumeMultiplier" =>
    /\ ev.multiplier \in 500 .. 1500
    /\ ev.canvasWidth = 0 => ev.multiplier = 1000
    /\ ev.canvasWidth > 0 =>
         /\ 2 * ev.pointerX = ev.canvasWidth => ev.multiplier = 1000
         /\ ev.pointerX <= 0 => ev.multiplier = 500
         /\ ev.pointerX >= ev.canvasWidth => ev.multiplier = 1500
         /\ 4 * ev.pointerX = 3 * ev.canvasWidth => ev.multiplier = 1250
    /\ (/\ Len(ev.previous) = 1
        /\ ev.previous[1].canvasWidth = ev.canvasWidth
        /\ ev.previous[1].pointerX <= ev.pointerX)
       => ev.previous[1].multiplier <= ev.multiplier

\* x = 600 on a width of 800 was mapped to 1.25, after x = 10 on a width of 0
\* was mapped to 1.0
ThreeQuartersAfterZeroWidth ==
  /\ ev.op = "calculateDynamicVolumeMultiplier"
  /\ ev.canvasWidth = 800
  /\ ev.pointerX = 600
  /\ ev.multiplier = 1250
  /\ Len(ev.previous) = 1
  /\ ev.previous[1].canvasWidth = 0
  /\ ev.previous[1].pointerX = 10
  /\ ev.previous[1].multiplier = 1000

\* C26: octave arithmetic. getFrequencyWithOctave(f, k) is f for k = 0, 2f for
\* 1, 4f for 2, f/2 for -1, f/4 for -2, and getFrequencyWithOctave(
\* getFrequencyWithOctave(f, a), b) = getFrequencyWithOctave(f, a + b), in
\* utils.js and in app.js.
OctaveArithmetic ==
  ev.op = "getFrequencyWithOctave" =>
    /\ ev.a = 0 => ev.once = ev.baseFrequency
    /\ ev.a = 1 => ev.once = 2 * ev.baseFrequency
    /\ ev.a = 2 => ev.once = 4 * ev.baseFrequency
    /\ ev.a = -1 => 2 * ev.once = ev.baseFrequency
    /\ ev.a = -2 => 4 * ev.once = ev.baseFrequency
    /\ ev.twice = ev.sum
    /\ ev.appOnce = ev.once
    /\ ev.appTwice = ev.appSum
    /\ ev.appSum = ev.sum

\* F two octaves down and two octaves up again is F
DownAndUpAgain ==
  /\ ev.op = "getFrequencyWithOctave"
  /\ ev.baseFrequency = NOTES[4].frequency
  /\ ev.a = -2
  /\ ev.b = 2
  /\ 4 * ev.once = ev.baseFrequency
  /\ ev.twice = ev.baseFrequency
  /\ ev.appTwice = ev.baseFrequency

\* C25: the live path applies the volume mapping. After a hand frame on a
\* canvas of width W > 0, with pointer x = landmark.x * W,
\* dynamicVolumeMultiplier is calculateDynamicVolumeMultiplier(x, W): 0.5 at
\* x = 0, 1.0 at W/2, 1.5 at W.
LiveVolumeMapping ==
  (ev.op = "handFrame" /\ canvasWidth > 0) =>
    dynamicVolumeMultiplier = CalculateDynamicVolumeMultiplier(ev.x, canvasWidth)

\* no note is selected, none sounds and the throttle of the selector is idle,
\* with the system running on a camera image of positive width
Neutral ==
  /\ isRunning
  /\ synth
  /\ audioInitialized
  /\ canvasWidth > 0
  /\ ~isPlaying
  /\ ~handDetected
  /\ currentNoteIndex = -1
  /\ now - lastNoteChangeTime >= MIN_NOTE_CHANGE_INTERVAL

VolumeOnEveryFrame ==
  (ev.op \in {"handFrame", "noHandFrame"} /\ synth /\ canvasWidth > 0) =>
    synthVolume = SynthVolumeOf(baseVolume, dynamicVolumeMultiplier)

\* C30: zero-width guard on the live path. After a hand frame processed on a
\* canvas of width 0, dynamicVolumeMultiplier is the neutral 1.0.
ZeroWidthIsNeutral ==
  (ev.op = "handFrame" /\ canvasWidth = 0) => dynamicVolumeMultiplier = 1000

(* ===================== properties of playback, continued =============== *)
\* C21: restart after cancellation starts over. After a run was cancelled and
\* a new run was started, the first note fired is the first index of the new
\* run's selection: there is no state in which a timer has fired a note at a
\* later position of the cancelled run while the new run has not fired its
\* first note.
RestartStartsOver ==
  ~(/\ ev.op = "timer"
    /\ ev.stale
    /\ ev.pos > 0
    /\ IssuedPlayNote
    /\ isPlayingRecording
    /\ \E i \in 1 .. Len(chains) : ~chains[i].cancelled /\ chains[i].noteIdx = 0)

\* the command a run sends for the note at position pos of noteIndices, when
\* it starts with the synth silent: a function of the buffer and the selection
ReplayCommand(noteIndices, pos) ==
  [cmd |-> IF pos = 0 THEN "attack" ELSE "retarget",
   frequency |-> recordedNotes[noteIndices[pos + 1] + 1].frequency]

\* C22: playback determinism. A run that starts with the synth ready and
\* silent, with nothing interleaved and its timers firing at their requested
\* times, sends commands that depend on the buffer and the selection only, not
\* on the time at which it starts: an attack at the frequency of the first
\* selected event, a retarget at the frequency of each further selected event
\* exactly the difference of the recorded timestamps after the command before
\* it, and a release exactly TailDelay after the last.
PlaybackDeterminism ==
  (ev.op = "timer" /\ ev.exact) =>
    /\ ev.pos # -1 =>
         /\ ev.cmds = << ReplayCommand(ev.noteIndices, ev.pos) >>
         /\ ev.pos > 0 =>
              ev.gap = recordedNotes[ev.noteIndices[ev.pos + 1] + 1].timestamp
                         - recordedNotes[ev.noteIndices[ev.pos] + 1].timestamp
    /\ (ev.pos = -1 /\ ev.gap # -1) =>
         /\ ev.gap = TailDelay
         /\ ev.cmds = << [cmd |-> "release",
                          frequency |->
                            ReplayCommand(ev.noteIndices,
                                          Len(ev.noteIndices) - 1).frequency] >>
    /\ (ev.pos = -1 /\ ev.gap = -1) => ev.cmds = << >>

\* a run over the first and the third note that started at 450 ms, 100 ms
\* later than the earliest run, has ended on time (at 1200 ms) with its release
LaterRunEndedAlike ==
  /\ ev.op = "timer"
  /\ ev.exact
  /\ ev.noteIndices = << 0, 2 >>
  /\ ev.pos = -1
  /\ ev.gap = TailDelay
  /\ now = 1200
  /\ ~isPlaying

\* C31: every started playback run ends. With timers that fire when they are
\* due, from every state in which a run is active a state is reached with
\* isPlayingRecording = false and the sink Silent, whatever Clear, Record,
\* selection changes and frames are interleaved with the timers of the run.
EveryRunEnds == isPlayingRecording ~> (~isPlayingRecording /\ ~isPlaying)

\* C32: a playback run never faults on the buffer. No call of playNext, by a
\* timer or by the playback button that starts the run, reads an element of
\* recordedNotes that does not exist, whatever Clear and Record did to the
\* buffer while the run was active.
RunNeverFaults == ~(ev.op \in {"timer"} \cup PlaybackButtons /\ ev.threw)

(* ================= properties of the sink and the buffer =============== *)
\* C33: changing the waveform maintains the playing state. When the change
\* handler runs while a note sounds at frequency f (the volume multiplier being
\* a number), it releases the old synth, attacks the new synth at f and ends
\* with isPlaying = true; when it runs while Silent it sends no command and
\* ends Silent.
WaveformKeepsPlaying ==
  [][ (ev'.op = "waveform" /\ dynamicVolumeMultiplier # NaN) =>
        /\ isPlaying =>
             /\ isPlaying'
             /\ synthFrequency' = synthFrequency
             /\ ev'.cmds = << [cmd |-> "release", frequency |-> synthFrequency],
                              [cmd |-> "attack", frequency |-> synthFrequency] >>
        /\ ~isPlaying => (~isPlaying' /\ ev'.cmds = << >>)
    ]_vars

\* the waveform was changed while a note of a playback run was sounding, and
\* the new synth sounds it
ResumedOnNewSynth ==
  /\ ev.op = "waveform"
  /\ ev.preSource = "playback"
  /\ isPlaying
  /\ soundSource = "playback"
  /\ Len(ev.cmds) = 2
  /\ ev.cmds[2] = [cmd |-> "attack", frequency |-> synthFrequency]

\* C34: selection validity. In every reachable state every index of
\* selectedNoteIndices is an index of the current buffer, 0 <= i <
\* recordedNotes.length, after any sequence of Record (start and stop), appended
\* events, toggleNoteSelection, selectAllNotes, deselectAllNotes and Clear.
SelectionValid ==
  \A i \in selectedNoteIndices : 0 <= i /\ i < Len(recordedNotes)

\* a frame has appended the first event of a second recording, and the
\* selection holds its index only
NewRecordingSelected ==
  /\ isRecording
  /\ recordingStartTime > 100
  /\ Len(recordedNotes) = 1
  /\ selectedNoteIndices = {0}
  /\ ev.op = "handFrame"
  /\ ev.committed

\* C35: selector consistency. In every reachable state currentNote is null
\* exactly when currentNoteIndex = -1, and otherwise it is
\* NOTES[currentNoteIndex] with currentNoteIndex in 0 .. 6, playback timers
\* interleaved with live frames included. (currentNote is held as the index
\* of the note in NOTES, null as -1.)
SelectorConsistent ==
  /\ currentNoteIndex \in {-1} \cup NoteIndices
  /\ (currentNote = -1) <=> (currentNoteIndex = -1)
  /\ currentNoteIndex # -1 => NOTES[currentNote + 1] = NOTES[currentNoteIndex + 1]

\* C36: every RecordedEvent is internally consistent. For every event of the
\* buffer noteIndex is in 0 .. 6, octaveShift is in -2 .. 2 and frequency is
\* NOTES[noteIndex].frequency * 2^octaveShift (written here with both sides
\* times 4), whatever frames recorded it, frames between playback timers
\* included.
EventsConsistent ==
  \A k \in 1 .. Len(recordedNotes) :
    LET e == recordedNotes[k]
    IN  /\ e.noteIndex \in NoteIndices
        /\ e.octaveShift \in -2 .. 2
        /\ 4 * e.frequency = NOTES[e.noteIndex + 1].frequency * Pow2(e.octaveShift + 2)

\* a frame has recorded F in the octave of the note that a playback timer had
\* played before it, while the run was active
RecordedOctaveOfPlayback ==
  /\ ev.op = "handFrame"
  /\ ev.committed
  /\ ev.wasActive
  /\ isRecording
  /\ Len(recordedNotes) >= 1
  /\ recordedNotes[Len(recordedNotes)].noteIndex = 3
  /\ recordedNotes[Len(recordedNotes)].octaveShift = 0
  /\ recordedNotes[Len(recordedNotes)].frequency = NOTES[4].frequency
  /\ currentOctaveShift = -2

\* C37: a recorded event captures what was played. The frequency stored in
\* the event that a frame appends is the effective frequency (note frequency
\* times 2^octave, the octave being that of the frame's depth) that the same
\* frame sends to the synth.
RecordedIsPlayed ==
  (/\ ev.op = "handFrame"
   /\ ev.committed
   /\ isRecording
   /\ Len(ev.cmds) = 1)
  => recordedNotes[Len(recordedNotes)].frequency = ev.cmds[1].frequency

\* C38: sounding implies a ready sink. In every reachable state isPlaying =
\* true implies that synth is not null and audioInitialized = true, across
\* Start and Stop of the system, waveform changes, frames and playback timers.
SoundingImpliesReady == isPlaying => (synth /\ audioInitialized)

\* Stop was clicked while a note of the live path was sounding: the note was
\* released before the synth was disposed of
StoppedWhileSounding ==
  /\ ev.op = "stopSystem"
  /\ ev.preSource = "live"
  /\ Released(ev.cmds)
  /\ ~isPlaying
  /\ ~synth
  /\ ~audioInitialized

\* C39: toggleRecording is a no-op while audio is not initialized, before the
\* first Start and after Stop: it leaves isRecording, recordedNotes,
\* selectedNoteIndices and recordingStartTime as they are.
RecordNeedsAudio ==
  [][ (ev'.op = "toggleRecording" /\ ~audioInitialized) =>
        UNCHANGED << isRecording, recordedNotes, selectedNoteIndices,
                     recordingStartTime >>
    ]_vars

\* Record was clicked after Stop had ended the audio during a recording: the
\* recording flag is still set and the recorded event is still there
RecordIgnoredAfterStop ==
  /\ ev.op = "toggleRecording"
  /\ ~audioInitialized
  /\ ~isRunning
  /\ isRecording
  /\ Len(recordedNotes) >= 1

====
